---- MODULE Spec2Model ----
(***************************************************************************)
(* exoplanet_fit.ipynb as a state machine.                                 *)
(*                                                                         *)
(* The state is the Jupyter kernel's namespace (one variable per Python    *)
(* name the notebook binds, plus the set `bound` of the names bound so     *)
(* far), the files under data/, and the position of the run.  Each cell,   *)
(* and inside the last cell each statement group, is one action.           *)
(*                                                                         *)
(* Numbers are exact rationals <<numerator, denominator>> in lowest terms  *)
(* with a positive denominator, so that means, medians and interpolated    *)
(* percentiles are computed the way the code computes them.  exp, log and  *)
(* 10**x are tables of 4-digit roundings on the arguments the model uses.  *)
(***************************************************************************)
EXTENDS Integers, Sequences, FiniteSets, TLC

\* ------------------------------------------------------------------ bounds

\* Rows of data/lc_obs.csv: 0 .. MaxRows.
MaxRows == 2
\* HJD values of a row: 0 .. MaxHJD (days).
MaxHJD == 2
\* Posterior samples of one trace (chains * draws); draws=2000 is cut to this.
MaxSamples == 2
\* Cells of the posterior predictive array (chains * draws * observations)
\* the summary is applied to in SpecTail.
MaxCells == 4
\* Executions of the notebook in SpecRerun.
MaxRuns == 2

\* --------------------------------------------------------------- rationals

Abs(x) == IF x < 0 THEN -x ELSE x

RECURSIVE GCD(_, _)
GCD(a, b) == IF b = 0 THEN a ELSE GCD(b, a % b)

Rat(n, d) ==
    LET g == GCD(Abs(n), Abs(d))
        s == IF d < 0 THEN -1 ELSE 1
    IN  <<(s * n) \div g, (s * d) \div g>>

Zero == <<0, 1>>
One == <<1, 1>>

RAdd(a, b) == Rat(a[1] * b[2] + b[1] * a[2], a[2] * b[2])
RSub(a, b) == Rat(a[1] * b[2] - b[1] * a[2], a[2] * b[2])
RMul(a, b) == Rat(a[1] * b[1], a[2] * b[2])
RLe(a, b) == a[1] * b[2] <= b[1] * a[2]
RLt(a, b) == a[1] * b[2] < b[1] * a[2]

\* ------------------------------------------------------------ numpy pieces

RECURSIVE Sum(_)
Sum(s) == IF s = <<>> THEN Zero ELSE RAdd(Head(s), Sum(Tail(s)))

\* np.mean of a non-empty array.
Mean(s) == RMul(Sum(s), Rat(1, Len(s)))

RECURSIVE Insert(_, _)
Insert(x, s) ==
    IF s = <<>> THEN <<x>>
    ELSE IF RLe(x, Head(s)) THEN <<x>> \o s
    ELSE <<Head(s)>> \o Insert(x, Tail(s))

\* Sort left out: the array as it comes.
Unsorted(s) == s

RECURSIVE Sort(_)
Sort(s) == IF s = <<>> THEN <<>> ELSE Insert(Head(s), Sort(Tail(s)))

\* np.median of a non-empty array: the middle element of the sorted array,
\* or the mean of the two middle elements.
Median(s) ==
    LET a == Sort(s)
        n == Len(a)
    IN  IF n % 2 = 1 THEN a[(n + 1) \div 2]
        ELSE RMul(RAdd(a[n \div 2], a[n \div 2 + 1]), Rat(1, 2))

\* np.percentile(s, q), default method 'linear': position q/100 * (n - 1) in
\* the sorted array, interpolated between the two neighbouring elements.
Percentile(s, q) ==
    LET a == Sort(s)
        n == Len(a)
        f == (q * (n - 1)) \div 100
        r == (q * (n - 1)) % 100
    IN  IF r = 0 THEN a[f + 1]
        ELSE RAdd(a[f + 1], RMul(Rat(r, 100), RSub(a[f + 2], a[f + 1])))

\* np.log(10), rounded.
Ln10 == Rat(2303, 1000)

\* 10 ** x on the half-integers the magnitudes of the model produce.
Pow10(x) ==
    CASE x = Rat(-1, 1) -> Rat(1, 10)
      [] x = Rat(-1, 2) -> Rat(3162, 10000)
      [] x = Rat(0, 1)  -> Rat(1, 1)
      [] x = Rat(1, 2)  -> Rat(3162, 1000)
      [] x = Rat(1, 1)  -> Rat(10, 1)

\* pt.exp on the values of logP the sampler of the model draws.
Exp(x) ==
    CASE x = Rat(1162, 1000) -> Rat(3197, 1000)
      [] x = Rat(1172, 1000) -> Rat(3229, 1000)

\* ------------------------------------------------------------------- files

OBS_CSV == "data/lc_obs.csv"
SYNTH_CSV == "data/lc_synth.csv"
UNCERT_CSV == "data/uncertainties.csv"
Paths == {OBS_CSV, SYNTH_CSV, UNCERT_CSV}

Columns == {"HJD", "MAG", "MERR"}

Absent == [exists |-> FALSE, cols |-> {}, rows |-> <<>>]

HJDs == {Rat(h, 1) : h \in 0 .. MaxHJD}
MAGs == {Rat(10, 1), Rat(25, 2)}
MERRs == {Rat(1, 100)}

RowSet == [HJD : HJDs, MAG : MAGs, MERR : MERRs]

RowSeqs == UNION {[1 .. n -> RowSet] : n \in 0 .. MaxRows}

\* A CSV file with all three columns, or with one of them missing.
Tables ==
    {[exists |-> TRUE, cols |-> c, rows |-> rs] :
        c \in {Columns} \cup {Columns \ {x} : x \in Columns}, rs \in RowSeqs}

\* ------------------------------------------------------------------- state

VARIABLES
    fs,          \* path -> file (Absent when there is none)
    pc,          \* the step the run is at
    error,       \* the exception that stopped the run, or "none"
    bound,       \* the Python names bound in the kernel
    df, time, mag, merr,
    t0, t_rel, t_ref, t_norm, mag0, flux_rel, flux_err,
    registered,  \* the names registered in the pm.Model
    trace,       \* trace[chain][draw]: a posterior sample
    ppc,         \* ppc.posterior_predictive: name -> [chain][draw][observation]
    lc_samps, lc_median, lc_lo, lc_hi,
    shown,       \* plt.show() has displayed the figure
    runs,        \* executions of the notebook so far
    prev_trace   \* history: the trace of the previous execution

vars == <<fs, pc, error, bound, df, time, mag, merr, t0, t_rel, t_ref, t_norm,
          mag0, flux_rel, flux_err, registered, trace, ppc, lc_samps,
          lc_median, lc_lo, lc_hi, shown, runs, prev_trace>>

loadVars == <<df, time, mag, merr>>
prepVars == <<t0, t_rel, t_ref, t_norm, mag0, flux_rel, flux_err>>
summaryVars == <<lc_samps, lc_median, lc_lo, lc_hi>>

\* The steps of the notebook, top to bottom.
Steps == <<"imports", "load", "preprocess", "model", "sample", "ppc",
           "summary", "plot">>

StepIndex(s) == CHOOSE i \in 1 .. Len(Steps) : Steps[i] = s

\* The position after step s: the next step, or "done" after the last.
After(s) == IF StepIndex(s) = Len(Steps) THEN "done" ELSE Steps[StepIndex(s) + 1]

\* A fresh kernel: nothing bound, nothing computed.
Fresh ==
    /\ pc = "imports"
    /\ error = "none"
    /\ bound = {}
    /\ df = Absent
    /\ time = <<>> /\ mag = <<>> /\ merr = <<>>
    /\ t0 = Zero /\ t_rel = <<>> /\ t_ref = Zero /\ t_norm = <<>>
    /\ mag0 = Zero /\ flux_rel = <<>> /\ flux_err = <<>>
    /\ registered = {}
    /\ trace = <<>>
    /\ ppc = <<>>
    /\ lc_samps = <<>> /\ lc_median = <<>> /\ lc_lo = <<>> /\ lc_hi = <<>>
    /\ shown = FALSE

Init ==
    /\ \E f \in Tables \cup {Absent} :
           fs = [p \in Paths |-> IF p = OBS_CSV THEN f ELSE Absent]
    /\ Fresh
    /\ runs = 1
    /\ prev_trace = <<>>

\* ------------------------------------------------------------------- names

\* Binds with t_ref left out of the preprocessing cell.
BindsWithoutTRef(s) ==
    CASE s = "imports"    -> {"pd", "np", "plt", "pm", "pt", "xo", "Time"}
      [] s = "load"       -> {"df", "time", "mag", "merr"}
      [] s = "preprocess" -> {"t0", "t_rel", "t_norm", "mag0", "flux_rel",
                              "flux_err"}
      [] s = "model"      -> {"model", "logP", "period", "phase", "tm", "r",
                              "b", "log_rho_star", "rho_star", "log_rstar",
                              "r_star", "orbit", "u", "mean", "raw_lc"}
      [] s = "sample"     -> {"trace"}
      [] s = "ppc"        -> {"ppc"}
      [] s = "summary"    -> {"lc_samps", "lc_median", "lc_lo", "lc_hi"}
      [] s = "plot"       -> {}

\* The Python names a step binds when it runs through.
Binds(s) ==
    CASE s = "imports"    -> {"pd", "np", "plt", "pm", "pt", "xo", "Time"}
      [] s = "load"       -> {"df", "time", "mag", "merr"}
      [] s = "preprocess" -> {"t0", "t_rel", "t_ref", "t_norm", "mag0",
                              "flux_rel", "flux_err"}
      [] s = "model"      -> {"model", "logP", "period", "phase", "tm", "r",
                              "b", "log_rho_star", "rho_star", "log_rstar",
                              "r_star", "orbit", "u", "mean", "raw_lc"}
      [] s = "sample"     -> {"trace"}
      [] s = "ppc"        -> {"ppc"}
      [] s = "summary"    -> {"lc_samps", "lc_median", "lc_lo", "lc_hi"}
      [] s = "plot"       -> {}

\* The Python names a step reads and does not bind itself before the read.
Reads(s) ==
    CASE s = "imports"    -> {}
      [] s = "load"       -> {"pd"}
      [] s = "preprocess" -> {"time", "mag", "merr", "np"}
      [] s = "model"      -> {"pm", "np", "pt", "xo", "t_ref", "t_norm",
                              "flux_err", "flux_rel"}
      [] s = "sample"     -> {"pm"}
      [] s = "ppc"        -> {"model", "pm", "trace"}
      [] s = "summary"    -> {"ppc", "np"}
      [] s = "plot"       -> {"plt", "time", "flux_rel", "flux_err",
                              "lc_median", "lc_lo", "lc_hi"}

\* Raise with the exception swallowed (try: ... except: pass): the run goes
\* on with the next step.
RaiseSwallowed(e) ==
    /\ pc' = After(pc)
    /\ UNCHANGED <<fs, error, bound, loadVars, prepVars, registered, trace,
                   ppc, summaryVars, shown, runs, prev_trace>>

\* An exception that leaves the statement without effect: the run stops at
\* the step it is at.  No cell catches anything.
Raise(e) ==
    /\ error' = e
    /\ UNCHANGED <<fs, pc, bound, loadVars, prepVars, registered, trace, ppc,
                   summaryVars, shown, runs, prev_trace>>

\* Step s is the one to run, and every name it reads is bound; Python raises
\* NameError for a read of an unbound name.
Ready(s) == pc = s /\ error = "none"
Unbound(s) == ~(Reads(s) \subseteq bound)

\* ------------------------------------------------------------------- cells

\* Cell d022fdfe: the imports.
Imports ==
    /\ Ready("imports")
    /\ IF Unbound("imports") THEN Raise("NameError")
       ELSE
           /\ bound' = bound \cup Binds("imports")
           /\ pc' = After("imports")
           /\ UNCHANGED <<fs, error, loadVars, prepVars, registered, trace,
                          ppc, summaryVars, shown, runs, prev_trace>>

\* Column with the rows in reverse order.
ColumnReversed(table, name) ==
    [i \in 1 .. Len(table.rows) |->
        table.rows[Len(table.rows) + 1 - i][name]]

\* df[name].values: the column as an array, in row order.
Column(table, name) == [i \in 1 .. Len(table.rows) |-> table.rows[i][name]]

\* Cell 44fd8196.  pd.read_csv raises FileNotFoundError when the file is
\* missing, df[name] raises KeyError for a missing column; the statements
\* before the raising one have taken effect.
Load ==
    /\ Ready("load")
    /\ LET f == fs[OBS_CSV] IN
       IF Unbound("load") THEN Raise("NameError")
       ELSE IF ~f.exists THEN Raise("FileNotFoundError")
       ELSE
           /\ df' = f
           /\ time' = IF "HJD" \in f.cols THEN Column(f, "HJD") ELSE time
           /\ mag' = IF {"HJD", "MAG"} \subseteq f.cols
                     THEN Column(f, "MAG") ELSE mag
           /\ merr' = IF Columns \subseteq f.cols
                      THEN Column(f, "MERR") ELSE merr
           /\ bound' = bound \cup {"df"}
                  \cup (IF "HJD" \in f.cols THEN {"time"} ELSE {})
                  \cup (IF {"HJD", "MAG"} \subseteq f.cols THEN {"mag"} ELSE {})
                  \cup (IF Columns \subseteq f.cols THEN {"merr"} ELSE {})
           /\ error' = IF Columns \subseteq f.cols THEN "none" ELSE "KeyError"
           /\ pc' = IF Columns \subseteq f.cols THEN After("load") ELSE pc
           /\ UNCHANGED <<fs, prepVars, registered, trace, ppc, summaryVars,
                          shown, runs, prev_trace>>

\* time - t0, t_rel - t_ref: elementwise.
Shift(a, c) == [i \in 1 .. Len(a) |-> RSub(a[i], c)]

\* 10**(-0.4 * (mag - mag0)) - 1.0, elementwise.
FluxRel(m, m0) ==
    [i \in 1 .. Len(m) |->
        RSub(Pow10(RMul(Rat(-4, 10), RSub(m[i], m0))), One)]

\* 0.4 * np.log(10) * (flux_rel + 1) * merr, elementwise.
FluxErr(fr, me) ==
    [i \in 1 .. Len(fr) |->
        RMul(RMul(RMul(Rat(4, 10), Ln10), RAdd(fr[i], One)), me[i])]

\* Cell 5d7182a5.  time[0] raises IndexError on an empty array.
Preprocess ==
    /\ Ready("preprocess")
    /\ IF Unbound("preprocess") THEN Raise("NameError")
       ELSE IF Len(time) = 0 THEN Raise("IndexError")
       ELSE
           /\ t0' = time[1]
           /\ t_rel' = Shift(time, t0')
           /\ t_ref' = Mean(t_rel')
           /\ t_norm' = Shift(t_rel', t_ref')
           /\ mag0' = Median(mag)
           /\ flux_rel' = FluxRel(mag, mag0')
           /\ flux_err' = FluxErr(flux_rel', merr)
           /\ bound' = bound \cup Binds("preprocess")
           /\ pc' = After("preprocess")
           /\ UNCHANGED <<fs, error, loadVars, registered, trace, ppc,
                          summaryVars, shown, runs, prev_trace>>

\* The names the pm.Model block registers: one per pm.* / xo.distributions.*
\* call with a name argument.  raw_lc is a Python name only: it is not
\* wrapped in pm.Deterministic.
RegisteredNames ==
    {"logP", "period", "phase", "tm", "r", "b", "log_rho_star", "rho_star",
     "log_rstar", "r_star", "u", "mean", "obs"}

\* Cell 1b0b5589, the pm.Model block up to the likelihood.  The orbit and the
\* light curve are symbolic here: nothing is evaluated before sampling.
BuildModel ==
    /\ Ready("model")
    /\ IF Unbound("model") THEN Raise("NameError")
       ELSE
           /\ registered' = RegisteredNames
           /\ bound' = bound \cup Binds("model")
           /\ pc' = After("model")
           /\ UNCHANGED <<fs, error, loadVars, prepVars, trace, ppc,
                          summaryVars, shown, runs, prev_trace>>

\* Values of the free variables the sampler of the model draws: logP around
\* np.log(3.21305751) with sigma 0.005, phase in the support of
\* pm.Uniform(lower=-0.5, upper=0.5).
LogPs == {Rat(1162, 1000), Rat(1172, 1000)}
Phases == {Rat(-1, 2), Zero, Rat(1, 2)}

\* pm.Deterministic('period', pt.exp(logP))
Period(logP) == Exp(logP)

\* Tm with the sum taken before the product: (t_ref + phase) * period.
TmSumFirst(tref, phase, period) == RMul(RAdd(tref, phase), period)

\* pm.Deterministic('tm', t_ref + phase * period)
Tm(tref, phase, period) == RAdd(tref, RMul(phase, period))

\* One posterior sample: the free variables with their deterministics.  The
\* other free variables (r, b, log_rho_star, log_rstar, u, mean) are drawn
\* too; nothing in the notebook reads them back, and they are left out.
PosteriorSamples(tref) ==
    {[logP |-> l, period |-> Period(l), phase |-> p,
      tm |-> Tm(tref, p, Period(l))] : l \in LogPs, p \in Phases}

\* chains x draws of a trace: at least two chains (the default of pm.sample),
\* at least one draw.
TraceShapes(max) ==
    {sh \in (2 .. max) \X (1 .. max) : sh[1] * sh[2] <= max}

\* trace = pm.sample(draws=2000, tune=1000, target_accept=0.9): no
\* random_seed, so the sampler is seeded from the operating system and any
\* trace of the posterior's support may come back; or the sampler raises.
Sample ==
    /\ Ready("sample")
    /\ IF Unbound("sample") THEN Raise("NameError")
       ELSE
           \/ \E sh \in TraceShapes(MaxSamples) :
              \E tr \in [1 .. sh[1] -> [1 .. sh[2] -> PosteriorSamples(t_ref)]] :
                  /\ trace' = tr
                  /\ bound' = bound \cup Binds("sample")
                  /\ pc' = After("sample")
                  /\ UNCHANGED <<fs, error, loadVars, prepVars, registered,
                                 ppc, summaryVars, shown, runs, prev_trace>>
           \/ Raise("SamplingError")

\* var_names of pm.sample_posterior_predictive.
VarNames == {"raw_lc"}

\* Relative flux values of a predicted light curve.
LCValues == {Rat(-1, 100), Zero, Rat(1, 100)}

\* Posterior predictive arrays [chain][draw][observation].
Predictives(c, d, n) == [1 .. c -> [1 .. d -> [1 .. n -> LCValues]]]

\* ppc = pm.sample_posterior_predictive(trace, var_names=['raw_lc'],
\* random_seed=42): model[name] raises KeyError for a name the model does not
\* hold.
PosteriorPredictive ==
    /\ Ready("ppc")
    /\ IF Unbound("ppc") THEN Raise("NameError")
       ELSE IF ~(VarNames \subseteq registered) THEN Raise("KeyError")
       ELSE
           /\ \E pp \in Predictives(Len(trace), Len(trace[1]), Len(t_norm)) :
                  ppc' = [v \in VarNames |-> pp]
           /\ bound' = bound \cup Binds("ppc")
           /\ pc' = After("ppc")
           /\ UNCHANGED <<fs, error, loadVars, prepVars, registered, trace,
                          summaryVars, shown, runs, prev_trace>>

\* AcrossSamples over axis 0 only: the first draw of every chain.
AcrossChains(a, i) == [k \in 1 .. Len(a) |-> a[k][1][i]]

\* The values of observation i over axes (0, 1): all chains and draws, in
\* chain-major order.
AcrossSamples(a, i) ==
    LET d == Len(a[1])
    IN  [k \in 1 .. Len(a) * d |-> a[((k - 1) \div d) + 1][((k - 1) % d) + 1][i]]

\* Length of the last axis.
NObs(a) == Len(a[1][1])

\* np.median(lc_samps, axis=(0,1))
MedianOverSamples(a) ==
    [i \in 1 .. NObs(a) |-> Median(AcrossSamples(a, i))]

\* np.percentile(lc_samps, q, axis=(0,1))
PercentileOverSamples(a, q) ==
    [i \in 1 .. NObs(a) |-> Percentile(AcrossSamples(a, i), q)]

\* lc_samps, lc_median, lc_lo, lc_hi.
Summarise ==
    /\ Ready("summary")
    /\ IF Unbound("summary") THEN Raise("NameError")
       ELSE IF "raw_lc" \notin DOMAIN ppc THEN Raise("KeyError")
       ELSE
           /\ lc_samps' = ppc["raw_lc"]
           /\ lc_median' = MedianOverSamples(lc_samps')
           /\ lc_lo' = PercentileOverSamples(lc_samps', 16)
           /\ lc_hi' = PercentileOverSamples(lc_samps', 84)
           /\ bound' = bound \cup Binds("summary")
           /\ pc' = After("summary")
           /\ UNCHANGED <<fs, error, loadVars, prepVars, registered, trace,
                          ppc, shown, runs, prev_trace>>

\* The figure: errorbar, plot and fill_between raise ValueError when x and y
\* differ in length.  Nothing is saved.
Plot ==
    /\ Ready("plot")
    /\ IF Unbound("plot") THEN Raise("NameError")
       ELSE IF \E y \in {flux_rel, flux_err, lc_median, lc_lo, lc_hi} :
                   Len(y) # Len(time)
       THEN Raise("ValueError")
       ELSE
           /\ shown' = TRUE
           /\ pc' = After("plot")
           /\ UNCHANGED <<fs, error, bound, loadVars, prepVars, registered,
                          trace, ppc, summaryVars, runs, prev_trace>>

\* ----------------------------------------------------------- specifications

\* One execution of the notebook, top to bottom.  The run stops in the
\* posterior predictive step at the latest; the statements after it are the
\* actions of SpecTail.
Next == Imports \/ Load \/ Preprocess \/ BuildModel \/ Sample
        \/ PosteriorPredictive

Spec == Init /\ [][Next]_vars

\* Restart the kernel and run the notebook again on the same files.
Rerun ==
    /\ runs < MaxRuns
    /\ error # "none" \/ pc = "done"
    /\ pc' = "imports"
    /\ error' = "none"
    /\ bound' = {}
    /\ df' = Absent
    /\ time' = <<>> /\ mag' = <<>> /\ merr' = <<>>
    /\ t0' = Zero /\ t_rel' = <<>> /\ t_ref' = Zero /\ t_norm' = <<>>
    /\ mag0' = Zero /\ flux_rel' = <<>> /\ flux_err' = <<>>
    /\ registered' = {}
    /\ trace' = <<>>
    /\ ppc' = <<>>
    /\ lc_samps' = <<>> /\ lc_median' = <<>> /\ lc_lo' = <<>> /\ lc_hi' = <<>>
    /\ shown' = FALSE
    /\ runs' = runs + 1
    /\ prev_trace' = trace
    /\ UNCHANGED fs

NextRerun == Next \/ Rerun

SpecRerun == Init /\ [][NextRerun]_vars

\* The names bound when step s is reached in order.
BoundBefore(s) == UNION {Binds(Steps[j]) : j \in 1 .. StepIndex(s) - 1}

\* chains x draws x observations of a posterior predictive array.
PredictiveShapes(max, n) ==
    {sh \in TraceShapes(max) : sh[1] * sh[2] * n <= max}

\* The statements after the posterior predictive step, started with the
\* state the steps before them leave on a well-formed file and with any
\* posterior predictive array for 'raw_lc'.
TailInit ==
    /\ \E f \in {t \in Tables : t.cols = Columns /\ Len(t.rows) >= 1} :
           /\ fs = [p \in Paths |-> IF p = OBS_CSV THEN f ELSE Absent]
           /\ df = f
           /\ time = Column(f, "HJD")
           /\ mag = Column(f, "MAG")
           /\ merr = Column(f, "MERR")
    /\ t0 = time[1]
    /\ t_rel = Shift(time, t0)
    /\ t_ref = Mean(t_rel)
    /\ t_norm = Shift(t_rel, t_ref)
    /\ mag0 = Median(mag)
    /\ flux_rel = FluxRel(mag, mag0)
    /\ flux_err = FluxErr(flux_rel, merr)
    /\ registered = RegisteredNames
    /\ \E sh \in PredictiveShapes(MaxCells, Len(time)) :
           /\ trace = [c \in 1 .. sh[1] |-> [d \in 1 .. sh[2] |->
                          CHOOSE s \in PosteriorSamples(t_ref) :
                              s.logP = Rat(1162, 1000) /\ s.phase = Zero]]
           /\ \E pp \in Predictives(sh[1], sh[2], Len(time)) :
                  ppc = [v \in VarNames |-> pp]
    /\ pc = "summary"
    /\ error = "none"
    /\ bound = BoundBefore("summary")
    /\ lc_samps = <<>> /\ lc_median = <<>> /\ lc_lo = <<>> /\ lc_hi = <<>>
    /\ shown = FALSE
    /\ runs = 1
    /\ prev_trace = <<>>

NextTail == Summarise \/ Plot

SpecTail == TailInit /\ [][NextTail]_vars

\* ------------------------------------------------------------------ claims

C2_SameTraceOnRerun ==
    (runs > 1 /\ "trace" \in bound /\ prev_trace # <<>>) => trace = prev_trace

\* C3.  The observations are the columns HJD, MAG, MERR of data/lc_obs.csv,
\* and once sampling has succeeded every sample of every chain and draw has
\* period > 0, phase in [-0.5, 0.5] and tm = t_ref + phase * period.
C3_SamplesCarryPeriodAndTm ==
    /\ "time" \in bound =>
           fs[OBS_CSV].exists /\ time = [i \in 1 .. Len(fs[OBS_CSV].rows) |->
                                            fs[OBS_CSV].rows[i].HJD]
    /\ "mag" \in bound =>
           mag = [i \in 1 .. Len(fs[OBS_CSV].rows) |-> fs[OBS_CSV].rows[i].MAG]
    /\ "merr" \in bound =>
           merr = [i \in 1 .. Len(fs[OBS_CSV].rows) |-> fs[OBS_CSV].rows[i].MERR]
    /\ "trace" \in bound =>
           /\ Len(trace) >= 1
           /\ \A c \in DOMAIN trace :
                  /\ Len(trace[c]) >= 1
                  /\ \A d \in DOMAIN trace[c] :
                         LET s == trace[c][d] IN
                         /\ DOMAIN s = {"logP", "period", "phase", "tm"}
                         /\ RLt(Zero, s.period)
                         /\ RLe(Rat(-1, 2), s.phase)
                         /\ RLe(s.phase, Rat(1, 2))
                         /\ s.tm = RAdd(t_ref, RMul(s.phase, s.period))

\* C3 witness: sampling has succeeded on two observations at different
\* times, with a sample at the upper end of the phase range.
C3_Witness ==
    /\ pc = "ppc" /\ "trace" \in bound
    /\ Len(time) = 2 /\ time[1] # time[2]
    /\ \E c \in DOMAIN trace : \E d \in DOMAIN trace[c] :
           trace[c][d].phase = Rat(1, 2)

\* The (chain, draw) index pairs of a posterior predictive array.
SampleIndex(a) == (1 .. Len(a)) \X (1 .. Len(a[1]))

\* v is at the q-th percentile of the values of observation i by rank: more
\* than q% of the n - 1 steps lie at or below it, and at least (100 - q)% at
\* or above it.
AtRank(a, i, v, q) ==
    LET n == Cardinality(SampleIndex(a))
        below == Cardinality({x \in SampleIndex(a) : RLe(a[x[1]][x[2]][i], v)})
        above == Cardinality({x \in SampleIndex(a) : RLe(v, a[x[1]][x[2]][i])})
    IN  /\ 100 * below > q * (n - 1)
        /\ 100 * above >= (100 - q) * (n - 1)

Reordered(a, f) ==
    [c \in 1 .. Len(a) |-> [d \in 1 .. Len(a[1]) |->
        a[f[<<c, d>>][1]][f[<<c, d>>][2]]]]

BoundAfter(s) ==
    UNION {Binds(Steps[j]) : j \in StepIndex(s) + 1 .. Len(Steps)}

\* C6.  A step that cannot do its work raises: a missing file, a missing
\* column and an empty table stop the run with the library's exception, at
\* that step.  A stopped run takes no further step, so no later step runs on
\* the partial state, and nothing a later statement would bind is bound.
C6_FailStop ==
    [][ /\ error # "none" => UNCHANGED vars
        /\ (pc = "load" /\ ~fs[OBS_CSV].exists)
               => (error' = "FileNotFoundError" /\ bound' = bound)
        /\ (pc = "load" /\ fs[OBS_CSV].exists
                /\ ~(Columns \subseteq fs[OBS_CSV].cols))
               => error' = "KeyError"
        /\ (pc = "preprocess" /\ Len(time) = 0) => error' = "IndexError"
        /\ error' # "none" =>
               /\ pc' = pc
               /\ bound' \cap BoundAfter(pc) = {}
               /\ UNCHANGED <<fs, registered, trace, ppc, summaryVars, shown>>
        /\ error' = "none" => Binds(pc) \subseteq bound'
      ]_vars

\* C6 witness: the load cell has stopped on a missing MAG column, with time
\* bound and mag not.
C6_Witness ==
    /\ pc = "load" /\ error = "KeyError"
    /\ "time" \in bound /\ "mag" \notin bound /\ "merr" \notin bound
    /\ Len(time) = 2

\* C7.  Once bound, time, mag and merr keep their value, and no step writes
\* data/lc_obs.csv; they hold the file's rows in the file's order; t_rel,
\* t_norm, flux_rel and flux_err have the length of the input and element i
\* is computed from row i.
C7_ObservationsImmutable ==
    /\ [][ /\ "time" \in bound => (time' = time /\ "time" \in bound')
           /\ "mag" \in bound => (mag' = mag /\ "mag" \in bound')
           /\ "merr" \in bound => (merr' = merr /\ "merr" \in bound')
           /\ fs'[OBS_CSV] = fs[OBS_CSV]
         ]_vars
    /\ [](/\ "merr" \in bound =>
                 /\ Len(time) = Len(fs[OBS_CSV].rows)
                 /\ Len(mag) = Len(time) /\ Len(merr) = Len(time)
                 /\ \A i \in 1 .. Len(time) :
                        /\ time[i] = fs[OBS_CSV].rows[i].HJD
                        /\ mag[i] = fs[OBS_CSV].rows[i].MAG
                        /\ merr[i] = fs[OBS_CSV].rows[i].MERR
          /\ "flux_err" \in bound =>
                 /\ Len(t_rel) = Len(time) /\ Len(t_norm) = Len(time)
                 /\ Len(flux_rel) = Len(time) /\ Len(flux_err) = Len(time)
                 /\ \A i \in 1 .. Len(time) :
                        /\ t_rel[i] = RSub(time[i], time[1])
                        /\ t_norm[i] = RSub(t_rel[i], t_ref)
                        /\ flux_rel[i] =
                               RSub(Pow10(RMul(Rat(-4, 10), RSub(mag[i], mag0))),
                                    One)
                        /\ flux_err[i] =
                               RMul(RMul(RMul(Rat(4, 10), Ln10),
                                         RAdd(flux_rel[i], One)), merr[i]))

\* C7 witness: the steps after preprocessing have run on two rows that are
\* not in time order and differ in magnitude.
C7_Witness ==
    /\ pc = "ppc" /\ "flux_err" \in bound /\ "trace" \in bound
    /\ Len(time) = 2
    /\ RLt(time[2], time[1])
    /\ mag[1] # mag[2]

\* C8.  The steps run one at a time, each at most once, in the order of the
\* notebook; every name a step reads is bound by an earlier step, so no run
\* raises NameError.
C8_LinearOrder ==
    /\ [][pc' # pc => (error = "none" /\ pc' = After(pc))]_vars
    /\ [](/\ error # "NameError"
          /\ pc \in {Steps[k] : k \in 1 .. Len(Steps)} \cup {"done"}
          /\ (error = "none" /\ pc # "done") => Reads(pc) \subseteq bound
          /\ bound = BoundBefore(pc) \/ error # "none"
          /\ \A k \in 1 .. Len(Steps) :
                 Reads(Steps[k]) \subseteq BoundBefore(Steps[k]))

\* C8 witness: the run has come to the posterior predictive step with every
\* name that step reads bound.
C8_Witness ==
    /\ pc = "ppc" /\ error = "none"
    /\ Reads("ppc") \subseteq bound
    /\ Len(time) = 2

\* C9 (the claim as stated; violated under Spec).  The names requested from
\* the model are registered in it, so the posterior predictive step does not
\* raise.
C9_RequestedNamesRegistered ==
    pc = "ppc" => (VarNames \subseteq registered /\ error # "KeyError")

\* C10 (the claim as stated; violated under Spec).  The mean of t_norm is
\* zero, and a sample with phase = 0 has its transit time tm at that mean.
C10_TransitCentred ==
    "trace" \in bound =>
        /\ Mean(t_norm) = Zero
        /\ \A c \in DOMAIN trace : \A d \in DOMAIN trace[c] :
               trace[c][d].phase = Zero => trace[c][d].tm = Mean(t_norm)
====
